---- MODULE Spec2Model ----
(***************************************************************************)
(* MemeSmash: the Elo rating engine and the /api/vote transaction of      *)
(* server.js, run against a PostgreSQL "images" table (READ COMMITTED,    *)
(* row locks taken by UPDATE and held until COMMIT or ROLLBACK).          *)
(*                                                                         *)
(* A handler runs to its next await without interruption (one JavaScript   *)
(* thread); every action below is one such stretch, taken at the moment    *)
(* the awaited query is executed by the database.                          *)
(*                                                                         *)
(* Numbers.  A JavaScript number is [nan, v]: v counts 1/Scale rating      *)
(* points, or NaN.  A NUMERIC cell of the table is [text, val], the text   *)
(* the pg driver hands back: "num" for a decimal string, "NaN" for the     *)
(* NUMERIC value NaN.  Expected scores are fixed-point with unit 1/One.    *)
(***************************************************************************)
EXTENDS Integers, Sequences, FiniteSets, TLC

\* ------------------------------------------------------------- bounds
MaxItems == 3          \* rows the images table may grow to
Scale    == 100        \* rating units per rating point

Handlers == {1, 2}     \* two /api/vote requests, each with its handler
One == Scale * Scale   \* fixed-point unit of an expected score

\* ---------------------------------------------------------- constants
K_FACTOR == 32
BASE_RATING == 1200

\* ------------------------------------------------------ number model
Num(x) == [nan |-> FALSE, v |-> x]
NaN    == [nan |-> TRUE,  v |-> 0]

NumericCell(x) == [text |-> "num", val |-> x]
NaNCell        == [text |-> "NaN", val |-> 0]

\* parseFloat(row.rating): a decimal string parses to its value, anything
\* else to NaN
parseFloat(cell) == IF cell.text = "num" THEN Num(cell.val) ELSE NaN

\* the driver's serialisation of a number bound to a NUMERIC parameter
ToNumeric(n) == IF n.nan THEN NaNCell ELSE NumericCell(n.v)

Abs(x) == IF x < 0 THEN -x ELSE x

\* (a * b) / c rounded to the nearest unit, c > 0
MulDiv(a, b, c) == (2 * a * b + c) \div (2 * c)

\* e^(t/One) * One for t >= 0, by its power series
RECURSIVE ExpSeries(_, _, _)
ExpSeries(t, k, term) ==
    IF term = 0 \/ k > 12 THEN 0
    ELSE term + ExpSeries(t, k + 1, (term * t) \div (k * One))

\* Math.pow(10, d / 400) * One, d in rating units:
\* 10^(d/400) = e^(d * ln(10)/400), ln(10)/400 = 0.0057565
MathPow10(d) ==
    LET t == (Abs(d) * 5757) \div (1000000 \div Scale)
        e == ExpSeries(t, 1, One)
    IN  IF d >= 0 THEN e ELSE (One * One) \div e

calculateExpectedScore(ratingA, ratingB) ==
    IF ratingA.nan \/ ratingB.nan THEN NaN
    ELSE LET den == One + MathPow10(ratingB.v - ratingA.v)
         IN  Num((2 * One * One + den) \div (2 * den))

\* mutant of EloUpdate: the outcome is left out
EloUpdateNoOutcome(rating, outcome, expected) ==
    IF rating.nan \/ expected.nan THEN NaN
    ELSE Num(rating.v - MulDiv(K_FACTOR * Scale, expected.v, One))

\* rating + K_FACTOR * (outcome - expected), outcome 1 or 0
EloUpdate(rating, outcome, expected) ==
    IF rating.nan \/ expected.nan THEN NaN
    ELSE Num(rating.v + MulDiv(K_FACTOR * Scale, outcome * One - expected.v, One))

NewWinnerRating(winnerRating, loserRating) ==
    EloUpdate(winnerRating, 1, calculateExpectedScore(winnerRating, loserRating))

NewLoserRating(winnerRating, loserRating) ==
    EloUpdate(loserRating, 0, calculateExpectedScore(loserRating, winnerRating))

\* -------------------------------------------------------------- state
VARIABLES
    images,     \* the table: row i is the row with id i
    tx,         \* per handler, its connection: [open, rows] (uncommitted versions)
    pc,         \* per handler, the operation it awaits
    winnerId,   \* per handler, req.body.winnerId
    loserId,    \* per handler, req.body.loserId
    wr,         \* per handler, the rows of the winner SELECT
    lr,         \* per handler, the rows of the loser SELECT
    res,        \* per handler, the HTTP status answered (0: none yet)
    ops,        \* per handler, the kinds of statement run for its request so far
    log,        \* the committed votes, in commit order
    body,       \* per handler, the ratings of its success response (<<>>: none)
    clients,    \* per handler, the pool clients it acquired and released
    reply       \* the latest response of /api/matchup, /api/rankings, /api/upload

vars == <<images, tx, pc, winnerId, loserId, wr, lr, res, ops, log,
          body, clients, reply>>

\* req.body fields: absent, empty, or the decimal text of an id (the ids the
\* table may come to hold, and one more)
Undefined == "undefined"
IdInputs  == {Undefined, ""} \cup {ToString(i) : i \in 1..MaxItems + 1}

\* !x on a request field
Falsy(x) == x \in {Undefined, ""}

NoTx == [open |-> FALSE, rows |-> <<>>]

\* a handler's use of the pool: clients acquired by pool.connect() and
\* clients released by c.release()
NoClient == [acquired |-> 0, released |-> 0]

\* const c = await pool.connect()
Acquire(c) == [c EXCEPT !.acquired = @ + 1]

\* mutant of Release: c.release() after COMMIT only, not in finally
ReleaseOnSuccess(c, failed) ==
    IF failed THEN c ELSE [c EXCEPT !.released = @ + 1]

\* finally { c.release() }: runs whether the try block failed or not
Release(c, failed) == [c EXCEPT !.released = @ + 1]

\* ------------------------------------------------- PostgreSQL, by query
\* the ids of the rows of the table
Rows == 1..Len(images)

\* SELECT id, name, rating FROM images WHERE id = $1 (committed rows only)
SelectById(id) ==
    LET hit == {i \in 1..Len(images) : ToString(i) = id}
    IN  IF hit = {} THEN <<>>
        ELSE LET i == CHOOSE j \in hit : TRUE
             IN  <<[id |-> i, rating |-> images[i].rating]>>

\* mutant of LockFree: an UPDATE locks the whole table
TableLockFree(h, i) == \A g \in Handlers : g # h => tx[g].rows = <<>>

\* the row lock an UPDATE needs: no other open transaction holds a version
LockFree(h, i) == \A g \in Handlers : g # h => i \notin DOMAIN tx[g].rows

\* mutant of BeginTx: BEGIN left out, every UPDATE commits on its own
BeginTxSkipped(t) == t

\* BEGIN on a connection
BeginTx(t) == [t EXCEPT !.open = TRUE]

\* the version of row i that an UPDATE by h starts from
Current(h, i) == IF i \in DOMAIN tx[h].rows THEN tx[h].rows[i] ELSE images[i]

\* SET rating = $1, matches_played = matches_played + 1
Updated(row, rating) ==
    [rating |-> ToNumeric(rating), matches_played |-> row.matches_played + 1]

\* the table once the versions of a transaction are made visible
Visible(tbl, rows) ==
    [i \in 1..Len(tbl) |-> IF i \in DOMAIN rows THEN rows[i] ELSE tbl[i]]

\* UPDATE images ... WHERE id = $2 on h's connection: inside a transaction
\* the new version stays private until COMMIT, outside one it is visible
\* at once
ExecUpdate(h, i, rating) ==
    LET new == Updated(Current(h, i), rating)
    IN  IF tx[h].open
        THEN /\ tx' = [tx EXCEPT ![h].rows =
                          [j \in DOMAIN tx[h].rows \cup {i} |->
                              IF j = i THEN new ELSE tx[h].rows[j]]]
             /\ UNCHANGED images
        ELSE /\ images' = [images EXCEPT ![i] = new]
             /\ UNCHANGED tx

\* ------------------------------------------------------- /api/vote
\* the ratings the handler computes from the two rows it read
winnerRating(h) == parseFloat(wr[h][1].rating)
loserRating(h)  == parseFloat(lr[h][1].rating)
newWinnerRating(h) == NewWinnerRating(winnerRating(h), loserRating(h))
newLoserRating(h)  == NewLoserRating(winnerRating(h), loserRating(h))

\* mutant of Invalid: only winnerId is looked at
InvalidWinnerOnly(w, l) == Falsy(w)

\* if (!winnerId || !loserId) return 400
Invalid(w, l) == Falsy(w) \/ Falsy(l)

Ran(h, kind) == ops' = [ops EXCEPT ![h] = @ \cup {kind}]

\* mutant of Return: the handler returns without answering
ReturnNoAnswer(h, status) ==
    /\ res' = res
    /\ pc' = [pc EXCEPT ![h] = "done"]
    /\ wr' = [wr EXCEPT ![h] = <<>>]
    /\ lr' = [lr EXCEPT ![h] = <<>>]

\* the handler answers and returns: its locals are gone
Return(h, status) ==
    /\ res' = [res EXCEPT ![h] = status]
    /\ pc' = [pc EXCEPT ![h] = "done"]
    /\ wr' = [wr EXCEPT ![h] = <<>>]
    /\ lr' = [lr EXCEPT ![h] = <<>>]

\* mutant of NotFound: 404 only when both rows are missing
NotFoundBoth(wrows, lrows) == Len(wrows) = 0 /\ Len(lrows) = 0

\* if (!wr.rows[0] || !lr.rows[0]) return 404
NotFound(wrows, lrows) == Len(wrows) = 0 \/ Len(lrows) = 0

\* a request arrives (the requests are numbered as they arrive); the
\* handler validates and issues the winner SELECT
Receive(h, w, l) ==
    /\ pc[h] = "idle"
    /\ \A g \in Handlers : g < h => pc[g] # "idle"
    /\ winnerId' = [winnerId EXCEPT ![h] = w]
    /\ loserId' = [loserId EXCEPT ![h] = l]
    /\ IF Invalid(w, l)
       THEN Return(h, 400)
       ELSE /\ pc' = [pc EXCEPT ![h] = "selW"]
            /\ UNCHANGED <<wr, lr, res>>
    /\ UNCHANGED <<images, tx, ops, log, body, clients, reply>>

\* the winner SELECT runs; the handler issues the loser SELECT
SelectWinner(h) ==
    /\ pc[h] = "selW"
    /\ wr' = [wr EXCEPT ![h] = SelectById(winnerId[h])]
    /\ pc' = [pc EXCEPT ![h] = "selL"]
    /\ Ran(h, "SELECT")
    /\ UNCHANGED <<images, tx, winnerId, loserId, lr, res, log, body, clients, reply>>

\* the loser SELECT runs; 404 if a row is missing, else the handler
\* computes the new ratings and asks the pool for a connection
SelectLoser(h) ==
    /\ pc[h] = "selL"
    /\ IF NotFound(wr[h], SelectById(loserId[h]))
       THEN Return(h, 404)
       ELSE /\ lr' = [lr EXCEPT ![h] = SelectById(loserId[h])]
            /\ pc' = [pc EXCEPT ![h] = "connect"]
            /\ UNCHANGED <<wr, res>>
    /\ Ran(h, "SELECT")
    /\ UNCHANGED <<images, tx, winnerId, loserId, log, body, clients, reply>>

\* pool.connect() resolves; the handler issues BEGIN
Connect(h) ==
    /\ pc[h] = "connect"
    /\ pc' = [pc EXCEPT ![h] = "BEGIN"]
    /\ clients' = [clients EXCEPT ![h] = Acquire(@)]
    /\ UNCHANGED <<images, tx, winnerId, loserId, wr, lr, res, ops, log,
                   body, reply>>

\* BEGIN runs; the handler issues the winner UPDATE
Begin(h) ==
    /\ pc[h] = "BEGIN"
    /\ tx' = [tx EXCEPT ![h] = BeginTx(@)]
    /\ pc' = [pc EXCEPT ![h] = "updW"]
    /\ Ran(h, "BEGIN")
    /\ UNCHANGED <<images, winnerId, loserId, wr, lr, res, log, body, clients, reply>>

\* the winner UPDATE runs once the row lock is free; the handler issues
\* the loser UPDATE
UpdateWinner(h) ==
    /\ pc[h] = "updW"
    /\ LockFree(h, wr[h][1].id)
    /\ ExecUpdate(h, wr[h][1].id, newWinnerRating(h))
    /\ pc' = [pc EXCEPT ![h] = "updL"]
    /\ Ran(h, "UPDATE")
    /\ UNCHANGED <<winnerId, loserId, wr, lr, res, log, body, clients, reply>>

\* the loser UPDATE runs; the handler issues COMMIT
UpdateLoser(h) ==
    /\ pc[h] = "updL"
    /\ LockFree(h, lr[h][1].id)
    /\ ExecUpdate(h, lr[h][1].id, newLoserRating(h))
    /\ pc' = [pc EXCEPT ![h] = "COMMIT"]
    /\ Ran(h, "UPDATE")
    /\ UNCHANGED <<winnerId, loserId, wr, lr, res, log, body, clients, reply>>

\* res.json({ success: true, winnerRating, loserRating }), ratings swapped
\* (mutant of Success)
SuccessSwapped(h) ==
    [winnerRating |-> newLoserRating(h), loserRating |-> newWinnerRating(h)]

\* res.json({ success: true, winnerRating: newWinnerRating,
\*            loserRating: newLoserRating })
Success(h) ==
    [winnerRating |-> newWinnerRating(h), loserRating |-> newLoserRating(h)]

\* what a committed vote was: its handler, its two rows and the ratings it
\* wrote
Entry(h) ==
    [by |-> h, winner |-> wr[h][1].id, loser |-> lr[h][1].id,
     newWinner |-> ToNumeric(newWinnerRating(h)),
     newLoser |-> ToNumeric(newLoserRating(h))]

\* COMMIT runs: the versions become visible and the locks go; the handler
\* releases the connection and answers success
Commit(h) ==
    /\ pc[h] = "COMMIT"
    /\ images' = Visible(images, tx[h].rows)
    /\ tx' = [tx EXCEPT ![h] = NoTx]
    /\ log' = Append(log, Entry(h))
    /\ clients' = [clients EXCEPT ![h] = Release(@, FALSE)]
    /\ body' = [body EXCEPT ![h] = Success(h)]
    /\ Return(h, 200)
    /\ Ran(h, "COMMIT")
    /\ UNCHANGED <<winnerId, loserId, reply>>

\* a query of the handler is answered with an error: before the
\* transaction the outer catch answers 500, inside it the inner catch
\* issues ROLLBACK
StorageError(h) ==
    /\ pc[h] \in {"selW", "selL", "connect", "BEGIN", "updW", "updL", "COMMIT"}
    /\ IF pc[h] \in {"selW", "selL", "connect"}
       THEN Return(h, 500)
       ELSE /\ pc' = [pc EXCEPT ![h] = "ROLLBACK"]
            /\ UNCHANGED <<wr, lr, res>>
    /\ UNCHANGED <<images, tx, winnerId, loserId, ops, log, body, clients, reply>>

\* ROLLBACK runs: the versions are dropped and the locks go; the handler
\* releases the connection, rethrows, and the outer catch answers 500
Rollback(h) ==
    /\ pc[h] = "ROLLBACK"
    /\ tx' = [tx EXCEPT ![h] = NoTx]
    /\ clients' = [clients EXCEPT ![h] = Release(@, TRUE)]
    /\ Return(h, 500)
    /\ Ran(h, "ROLLBACK")
    /\ UNCHANGED <<images, winnerId, loserId, log, body, reply>>

\* the ROLLBACK query is answered with an error (the connection is lost, the
\* server ends its transaction): the catch block throws, finally releases
\* the client and the outer catch answers 500
RollbackError(h) ==
    /\ pc[h] = "ROLLBACK"
    /\ tx' = [tx EXCEPT ![h] = NoTx]
    /\ clients' = [clients EXCEPT ![h] = Release(@, TRUE)]
    /\ Return(h, 500)
    /\ UNCHANGED <<images, winnerId, loserId, ops, log, body, reply>>

\* the row whose lock the UPDATE that h awaits needs
Awaited(h) == IF pc[h] = "updW" THEN wr[h][1].id ELSE lr[h][1].id

\* h's UPDATE waits for a row lock that g holds
WaitsFor(h, g) ==
    /\ g # h
    /\ pc[h] \in {"updW", "updL"}
    /\ Awaited(h) \in DOMAIN tx[g].rows

\* mutant of Deadlocked: no deadlock detection
NeverDeadlocked(h) == FALSE

\* h and another transaction wait for each other's row lock
Deadlocked(h) == \E g \in Handlers : WaitsFor(h, g) /\ WaitsFor(g, h)

\* PostgreSQL's deadlock detector ends the wait: the UPDATE of h is answered
\* with a deadlock error and the catch block issues ROLLBACK
Deadlock(h) ==
    /\ Deadlocked(h)
    /\ pc' = [pc EXCEPT ![h] = "ROLLBACK"]
    /\ UNCHANGED <<images, tx, winnerId, loserId, wr, lr, res, ops, log,
                   body, clients, reply>>

\* one step of the /api/vote handler of request h
Vote(h) ==
    \/ \E w, l \in IdInputs : Receive(h, w, l)
    \/ SelectWinner(h)
    \/ SelectLoser(h)
    \/ Connect(h)
    \/ Begin(h)
    \/ UpdateWinner(h)
    \/ UpdateLoser(h)
    \/ Commit(h)
    \/ StorageError(h)
    \/ Rollback(h)
    \/ RollbackError(h)

\* ------------------------------------------------------ /api/upload
\* INSERT ... VALUES ($1, $2, 1200, 0)
NewRow == [rating |-> NumericCell(BASE_RATING * Scale), matches_played |-> 0]

\* a response of one of the other routes: its route, its status and the
\* rows of its body
Reply(route, status, rows) == [route |-> route, status |-> status, rows |-> rows]
NoReply == Reply("none", 0, <<>>)

\* req.body.name, as its characters (an absent field acts as the empty
\* string: !name)
NameInputs == {<<>>, <<" ", " ">>, <<"c">>, <<" ", "c", " ">>}

\* name.trim()
RECURSIVE TrimStart(_)
TrimStart(s) ==
    IF s = <<>> THEN s
    ELSE IF Head(s) = " " THEN TrimStart(Tail(s)) ELSE s

RECURSIVE TrimEnd(_)
TrimEnd(s) ==
    IF s = <<>> THEN s
    ELSE IF s[Len(s)] = " " THEN TrimEnd(SubSeq(s, 1, Len(s) - 1)) ELSE s

Trim(s) == TrimEnd(TrimStart(s))

\* mutant of NameMissing: the name is not trimmed
NameMissingUntrimmed(name) == name = <<>>

\* if (!name || name.trim() === '')
NameMissing(name) == name = <<>> \/ Trim(name) = <<>>

\* the status /api/upload answers: file the request carries a file, stored
\* imagekit.upload resolves, inserted the INSERT succeeds
UploadStatus(file, name, stored, inserted) ==
    IF ~file THEN 400
    ELSE IF NameMissing(name) THEN 400
    ELSE IF ~stored \/ ~inserted THEN 500
    ELSE 201

\* POST /api/upload: the INSERT is run only when the checks and the image
\* upload went through
Upload(file, name, stored, inserted) ==
    /\ Len(images) < MaxItems
    /\ LET status == UploadStatus(file, name, stored, inserted)
       IN  /\ images' = IF status = 201 THEN Append(images, NewRow) ELSE images
           /\ reply' = Reply("upload", status, <<>>)
    /\ UNCHANGED <<tx, pc, winnerId, loserId, wr, lr, res, ops, log, body, clients>>

\* ------------------------------------- /api/matchup and /api/rankings
\* SELECT * of row i (name and image_url left out)
Row(i) == [id |-> i, rating |-> images[i].rating,
           matches_played |-> images[i].matches_played]

\* mutant of OrderByRandomLimit2: two draws, the same row may come twice
TwoRandomDraws ==
    IF Len(images) < 2 THEN {[k \in Rows |-> Row(k)]}
    ELSE {<<Row(p[1]), Row(p[2])>> : p \in Rows \X Rows}

\* SELECT * FROM images ORDER BY RANDOM() LIMIT 2: the results the query may
\* give, the first two rows of the table in some order
OrderByRandomLimit2 ==
    IF Len(images) < 2 THEN {[k \in Rows |-> Row(k)]}
    ELSE {<<Row(p[1]), Row(p[2])>> : p \in {q \in Rows \X Rows : q[1] # q[2]}}

\* GET /api/matchup: ok the query succeeds, rows its result
Matchup(ok) ==
    /\ \E rows \in OrderByRandomLimit2 :
          reply' = IF ~ok THEN Reply("matchup", 500, <<>>)
                   ELSE IF Len(rows) < 2 THEN Reply("matchup", 404, <<>>)
                   ELSE Reply("matchup", 200, rows)
    /\ UNCHANGED <<images, tx, pc, winnerId, loserId, wr, lr, res, ops, log,
                   body, clients>>

\* mutant of NumericGE: ascending order
NumericLE(a, b) == b.text = "NaN" \/ (a.text = "num" /\ a.val <= b.val)

\* a >= b on NUMERIC values (NaN sorts above every number)
NumericGE(a, b) == a.text = "NaN" \/ (b.text = "num" /\ a.val >= b.val)

\* SELECT * FROM images ORDER BY rating DESC: the results the query may
\* give (rows of equal rating come in any order)
OrderByRatingDesc ==
    LET sorted(q) == \A k \in Rows : \A m \in Rows :
                        /\ (k # m => q[k] # q[m])
                        /\ (m = k + 1 =>
                              NumericGE(images[q[k]].rating, images[q[m]].rating))
    IN  {[k \in Rows |-> Row(q[k])] : q \in {r \in [Rows -> Rows] : sorted(r)}}

\* GET /api/rankings: ok the query succeeds, rows its result
Rankings(ok) ==
    /\ \E rows \in OrderByRatingDesc :
          reply' = IF ~ok THEN Reply("rankings", 500, <<>>)
                   ELSE Reply("rankings", 200, rows)
    /\ UNCHANGED <<images, tx, pc, winnerId, loserId, wr, lr, res, ops, log,
                   body, clients>>

\* ------------------------------------------------------ specification
InitHandlers ==
    /\ tx = [h \in Handlers |-> NoTx]
    /\ pc = [h \in Handlers |-> "idle"]
    /\ winnerId = [h \in Handlers |-> Undefined]
    /\ loserId = [h \in Handlers |-> Undefined]
    /\ wr = [h \in Handlers |-> <<>>]
    /\ lr = [h \in Handlers |-> <<>>]
    /\ res = [h \in Handlers |-> 0]
    /\ ops = [h \in Handlers |-> {}]
    /\ log = <<>>
    /\ body = [h \in Handlers |-> <<>>]
    /\ clients = [h \in Handlers |-> NoClient]
    /\ reply = NoReply

\* the server starts on an empty table
Init ==
    /\ images = <<>>
    /\ InitHandlers

Next ==
    \/ \E h \in Handlers, w, l \in IdInputs : Receive(h, w, l)
    \/ \E h \in Handlers : SelectWinner(h)
    \/ \E h \in Handlers : SelectLoser(h)
    \/ \E h \in Handlers : Connect(h)
    \/ \E h \in Handlers : Begin(h)
    \/ \E h \in Handlers : UpdateWinner(h)
    \/ \E h \in Handlers : UpdateLoser(h)
    \/ \E h \in Handlers : Commit(h)
    \/ \E h \in Handlers : StorageError(h)
    \/ \E h \in Handlers : Rollback(h)
    \/ \E h \in Handlers : RollbackError(h)
    \/ \E h \in Handlers : Deadlock(h)
    \/ \E file, stored, inserted \in BOOLEAN, name \in NameInputs :
          Upload(file, name, stored, inserted)

Spec == Init /\ [][Next]_vars

\* the server starts on a table in which the rating of row 1 is the NUMERIC
\* value NaN (the column type admits it; a NULL parses the same way)
InitCorrupt ==
    /\ images = <<[rating |-> NaNCell, matches_played |-> 0], NewRow>>
    /\ InitHandlers

SpecCorrupt == InitCorrupt /\ [][Next]_vars

\* the read routes and the upload route next to the votes of one request
NextApi ==
    \/ Vote(1)
    \/ \E file, stored, inserted \in BOOLEAN, name \in NameInputs :
          Upload(file, name, stored, inserted)
    \/ \E ok \in BOOLEAN : Matchup(ok)
    \/ \E ok \in BOOLEAN : Rankings(ok)

SpecApi == Init /\ [][NextApi]_vars

\* the rating engine on its own: one request on a table of two rows whose
\* ratings are drawn from RatingInputs
RatingInputs == {BASE_RATING * Scale + d * Scale : d \in {-200, -100, -1, 0, 1, 100, 200}}

InitElo ==
    /\ images \in {<<[rating |-> NumericCell(a), matches_played |-> 0],
                     [rating |-> NumericCell(b), matches_played |-> 0]>> :
                        a, b \in RatingInputs}
    /\ InitHandlers

NextElo == Vote(1)

SpecElo == InitElo /\ [][NextElo]_vars

\* the votes of two requests, on a table that no upload extends
NextLive == \E h \in Handlers : Vote(h) \/ Deadlock(h)

\* the votes of two requests on a table of two pairs of rows
InitPairs ==
    /\ images = [i \in 1..MaxItems + 1 |-> NewRow]
    /\ InitHandlers

SpecPairs == InitPairs /\ [][NextLive]_vars

\* the votes of two requests on a table of two rows, every query that is
\* issued being answered in the end (by its result, or by an error) and a
\* deadlock being detected
InitLive ==
    /\ images = <<NewRow, NewRow>>
    /\ InitHandlers

Answered(h) ==
    \/ SelectWinner(h) \/ SelectLoser(h) \/ Connect(h) \/ Begin(h)
    \/ UpdateWinner(h) \/ UpdateLoser(h) \/ Commit(h) \/ Rollback(h)

Fairness == \A h \in Handlers : WF_vars(Answered(h)) /\ WF_vars(Deadlock(h))

SpecLive == InitLive /\ [][NextLive]_vars /\ Fairness

\* ===================================================== properties
Baseline == NumericCell(BASE_RATING * Scale)

\* the handlers that have both rows and are at or past pool.connect()
AfterFetch == {h \in Handlers :
                 pc[h] \in {"connect", "BEGIN", "updW", "updL", "COMMIT", "ROLLBACK"}}

\* the rating of row i once the first k committed votes are applied, each
\* as a whole (winner UPDATE, then loser UPDATE)
RECURSIVE RatingAfter(_, _)
RatingAfter(i, k) ==
    IF k = 0 THEN Baseline
    ELSE IF log[k].loser = i THEN log[k].newLoser
    ELSE IF log[k].winner = i THEN log[k].newWinner
    ELSE RatingAfter(i, k - 1)

\* the UPDATEs of committed votes on row i, and the committed votes that
\* row i took part in
Writes(i) == Cardinality({k \in 1..Len(log) : log[k].winner = i})
             + Cardinality({k \in 1..Len(log) : log[k].loser = i})
Played(i) == Cardinality({k \in 1..Len(log) : i \in {log[k].winner, log[k].loser}})

NoSelfVote == \A k \in 1..Len(log) : log[k].winner # log[k].loser

\* the table after the votes <<w, l>> of seq are run one after the other
\* on t (a function from rows to ratings in rating units)
RECURSIVE Serial(_, _)
Serial(t, seq) ==
    IF seq = <<>> THEN t
    ELSE LET w == Head(seq)[1]
             l == Head(seq)[2]
             nw == NewWinnerRating(Num(t[w]), Num(t[l]))
             nl == NewLoserRating(Num(t[w]), Num(t[l]))
         IN  Serial([t EXCEPT ![w] = nw.v, ![l] = nl.v], Tail(seq))

Fresh == [i \in Rows |-> BASE_RATING * Scale]
Pair(k) == <<log[k].winner, log[k].loser>>

\* C1: when two votes on two different pairs that share an item have both
\* committed, the stored
\* rating of every item they share is the one that running the two votes
\* one after the other, in one of the two orders, leaves (no lost update)
C1_NoLostUpdate ==
    LET items(k) == {log[k].winner, log[k].loser}
        shared == items(1) \cap items(2)
    IN  (/\ Len(log) = 2 /\ NoSelfVote
         /\ items(1) # items(2) /\ shared # {}
         /\ \A h \in Handlers : tx[h] = NoTx) =>
            \E order \in {<<Pair(1), Pair(2)>>, <<Pair(2), Pair(1)>>} :
                \A x \in shared :
                    images[x].rating = NumericCell(Serial(Fresh, order)[x])

\* C2: the visible table is at all times the table on which every
\* committed vote has made both of its UPDATEs (rating and matches_played
\* + 1) and no other vote has made any: a vote that failed or is still in
\* its transaction shows on neither of its rows
C2_Atomic ==
    \A i \in Rows :
        /\ images[i].rating = RatingAfter(i, Len(log))
        /\ images[i].matches_played = Writes(i)

\* C2 witness: a vote rolled back after its UPDATEs and the table is as it
\* was before the vote
C2_Witness ==
    \E h \in Handlers :
        /\ pc[h] = "done" /\ res[h] = 500
        /\ {"UPDATE", "ROLLBACK"} \subseteq ops[h]
        /\ log = <<>>
        /\ \A i \in Rows : images[i] = NewRow

\* C3: matches_played of every item is the number of committed votes the
\* item took part in
C3_MatchesPlayed ==
    \A i \in Rows : images[i].matches_played = Played(i)

\* C4: a request with winnerId = loserId is answered 400 with no storage
\* access: its handler never awaits a query and no statement is run for it
C4_SelfVoteRejected ==
    \A h \in Handlers :
        (pc[h] # "idle" /\ ~Falsy(winnerId[h]) /\ winnerId[h] = loserId[h]) =>
            (pc[h] = "done" /\ res[h] = 400 /\ ops[h] = {})

\* C5: a request with a missing or empty winnerId or loserId is answered
\* 400 at once: its handler never awaits a query or a connection, no
\* statement is run for it and it holds no transaction
C5_MissingIdRejected ==
    \A h \in Handlers :
        (pc[h] # "idle" /\ (Falsy(winnerId[h]) \/ Falsy(loserId[h]))) =>
            (pc[h] = "done" /\ res[h] = 400 /\ ops[h] = {} /\ tx[h] = NoTx)

\* C5 witness: a request with an empty loserId was answered 400 while the
\* table has rows
C5_Witness ==
    \E h \in Handlers :
        /\ pc[h] = "done" /\ res[h] = 400
        /\ ~Falsy(winnerId[h]) /\ loserId[h] = ""
        /\ Len(images) > 0

\* C6: a handler gets past its two SELECTs only with both rows found, and
\* a request answered 404 has had nothing but SELECTs run: no BEGIN and no
\* UPDATE
C6_NotFound ==
    \A h \in Handlers :
        /\ h \in AfterFetch => (Len(wr[h]) = 1 /\ Len(lr[h]) = 1)
        /\ tx[h] # NoTx => h \in AfterFetch
        /\ res[h] = 404 => (pc[h] = "done" /\ ops[h] = {"SELECT"} /\ tx[h] = NoTx)

\* C6 witness: a request naming an existing winner and a loser that is not
\* in the table was answered 404 and the table is untouched
C6_Witness ==
    \E h \in Handlers :
        /\ res[h] = 404
        /\ SelectById(winnerId[h]) # <<>> /\ SelectById(loserId[h]) = <<>>
        /\ \A i \in Rows : images[i] = NewRow

\* C7: the two ratings a vote computes from were the stored ratings of its
\* two items at one and the same time (after some number of commits)
C7_ConsistentSnapshot ==
    \A h \in AfterFetch :
        (NoSelfVote /\ winnerId[h] # loserId[h]) =>
        \E k \in 0..Len(log) :
            /\ RatingAfter(wr[h][1].id, k) = wr[h][1].rating
            /\ RatingAfter(lr[h][1].id, k) = lr[h][1].rating

\* C8: a vote between two items that read a rating that does not parse to
\* a number goes no further than its SELECTs, and no row that held a number
\* comes to hold NaN
C8_InvalidRatingRejected ==
    /\ \A h \in AfterFetch :
          winnerId[h] # loserId[h] => (~winnerRating(h).nan /\ ~loserRating(h).nan)
    /\ \A i \in Rows : i > 1 => images[i].rating.text = "num"

RECURSIVE SumRatings(_)
SumRatings(n) == IF n = 0 THEN 0 ELSE images[n].rating.val + SumRatings(n - 1)

\* C10: with no transaction open, the stored ratings add up to 1200 per
\* item (here: to within one rating point, and for votes between two
\* different items)
C10_RatingConservation ==
    (NoSelfVote /\ \A h \in Handlers : tx[h] = NoTx) =>
        Abs(SumRatings(Len(images)) - Len(images) * BASE_RATING * Scale) <= Scale

\* C11: in every vote the winner gains and the loser loses, each by more
\* than 0 and less than K_FACTOR rating points; from equal ratings the
\* winner gains exactly K_FACTOR / 2 = 16 points and the loser loses 16
C11_EloGain ==
    \A h \in AfterFetch :
        LET w == winnerRating(h).v
            l == loserRating(h).v
            gain == newWinnerRating(h).v - w
            loss == l - newLoserRating(h).v
        IN  /\ w = l => (gain = 16 * Scale /\ loss = 16 * Scale)
            /\ 0 < gain /\ gain < K_FACTOR * Scale
            /\ 0 < loss /\ loss < K_FACTOR * Scale

\* C11 witness: a vote between two rows at 1200 has answered 1216 and 1184,
\* and the table holds them
C11_Witness ==
    \E h \in Handlers :
        /\ res[h] = 200 /\ winnerId[h] = "1" /\ loserId[h] = "2"
        /\ body[h].winnerRating = Num(1216 * Scale)
        /\ body[h].loserRating = Num(1184 * Scale)
        /\ images[1].rating = NumericCell(1216 * Scale)
        /\ images[2].rating = NumericCell(1184 * Scale)

\* C12: a request is answered success only in the step in which its
\* transaction commits, the ratings of the response being the ratings its
\* UPDATEs wrote to the winner's and the loser's row, which that step makes
\* visible; a request whose transaction was rolled back, or is about to be,
\* is not answered success
C12_SuccessAfterCommit ==
    /\ [](\A h \in Handlers :
            /\ res[h] = 200 => ("COMMIT" \in ops[h] /\ tx[h] = NoTx)
            /\ "ROLLBACK" \in ops[h] => res[h] = 500)
    /\ [][\A h \in Handlers :
            /\ (res'[h] = 200 /\ res[h] # 200) =>
                  LET w == wr[h][1].id
                      l == lr[h][1].id
                  IN  /\ tx[h].open /\ tx'[h] = NoTx
                      /\ w # l => tx[h].rows[w].rating = ToNumeric(body'[h].winnerRating)
                      /\ tx[h].rows[l].rating = ToNumeric(body'[h].loserRating)
                      /\ images'[l] = tx[h].rows[l] /\ images'[w] = tx[h].rows[w]
            /\ pc[h] = "ROLLBACK" => res'[h] # 200]_vars

\* C12 witness: of two votes one was rolled back and answered 500, the
\* other answered success with the ratings its two rows now hold
C12_Witness ==
    \E h, g \in Handlers :
        /\ res[g] = 500 /\ "ROLLBACK" \in ops[g]
        /\ res[h] = 200 /\ winnerId[h] = "2" /\ loserId[h] = "1"
        /\ images[2].rating = ToNumeric(body[h].winnerRating)
        /\ images[1].rating = ToNumeric(body[h].loserRating)

\* C13: /api/matchup, its query answered, responds either with exactly two
\* rows of the table with different ids, and then the table has two rows or
\* more, or with the not-enough-images error (404) and no rows, and then
\* the table has fewer than two rows; only a failed query is answered 500
C13_Matchup ==
    [][(reply' # reply /\ reply'.route = "matchup") =>
          /\ reply'.status \in {200, 404, 500}
          /\ reply'.status = 404 => (Len(images) < 2 /\ reply'.rows = <<>>)
          /\ reply'.status = 500 => reply'.rows = <<>>
          /\ reply'.status = 200 =>
                /\ Len(images) >= 2
                /\ Len(reply'.rows) = 2
                /\ reply'.rows[1].id # reply'.rows[2].id
                /\ \A k \in 1..2 : /\ reply'.rows[k].id \in Rows
                                   /\ reply'.rows[k] = Row(reply'.rows[k].id)]_vars

\* C13 witness: on a table of three rows /api/matchup has answered rows 3
\* and 1
C13_Witness ==
    /\ Len(images) = 3
    /\ reply.route = "matchup" /\ reply.status = 200
    /\ Len(reply.rows) = 2 /\ reply.rows[1].id = 3 /\ reply.rows[2].id = 1

\* C14: /api/upload appends one row with rating 1200 and matches_played 0
\* when it answers 201 and leaves the table as it is when it does not; it
\* does not answer 201 when the file is missing, the name is empty or all
\* blanks, or the image upload fails; the rows that exist stay as they are
C14_Upload ==
    [][\A file, stored, inserted \in BOOLEAN, name \in NameInputs :
          Upload(file, name, stored, inserted) =>
              /\ reply'.status = 201 =>
                    /\ Len(images') = Len(images) + 1
                    /\ images'[Len(images')].rating = NumericCell(1200 * Scale)
                    /\ images'[Len(images')].matches_played = 0
              /\ reply'.status # 201 => Len(images') = Len(images)
              /\ (~file \/ (\A k \in 1..Len(name) : name[k] = " ") \/ ~stored) =>
                    reply'.status # 201
              /\ \A i \in Rows : images'[i] = images[i]]_vars

\* C14 witness: an upload was answered 201 on a table in which a vote had
\* been committed, and the table has one more row, at 1200 and 0
C14_Witness ==
    /\ reply.route = "upload" /\ reply.status = 201
    /\ Len(log) = 1 /\ Len(images) = 3
    /\ images[1].matches_played = 1
    /\ images[3] = [rating |-> NumericCell(1200 * Scale), matches_played |-> 0]

\* C15: every request that was received is answered in the end, its
\* transaction committed or rolled back and its row locks released
C15_Terminates ==
    \A h \in Handlers :
        (pc[h] \notin {"idle", "done"}) ~> (pc[h] = "done" /\ tx[h] = NoTx)

\* C15 witness: two votes on the same pair in opposite directions, each
\* holding the lock of its winner's row and waiting for its loser's row
C15_Witness ==
    /\ winnerId[1] = "1" /\ loserId[1] = "2"
    /\ winnerId[2] = "2" /\ loserId[2] = "1"
    /\ pc[1] = "updL" /\ pc[2] = "updL"
    /\ WaitsFor(1, 2) /\ WaitsFor(2, 1)

\* the ids a request names
Named(h) == {winnerId[h], loserId[h]}

\* C16: of two requests in flight that name no common item, neither ever
\* waits for the other: whatever statement one awaits can run, wherever the
\* other stands; and when both have committed, every row holds the rating
\* that running the two votes one after the other, in either order, leaves,
\* and the matches_played its votes add up to
C16_DisjointIndependent ==
    \A h, g \in Handlers :
        (/\ h # g /\ pc[h] # "idle" /\ pc[g] # "idle"
         /\ ~Invalid(winnerId[h], loserId[h]) /\ ~Invalid(winnerId[g], loserId[g])
         /\ Named(h) \cap Named(g) = {}) =>
            /\ pc[h] = "selW" => ENABLED SelectWinner(h)
            /\ pc[h] = "selL" => ENABLED SelectLoser(h)
            /\ pc[h] = "connect" => ENABLED Connect(h)
            /\ pc[h] = "BEGIN" => ENABLED Begin(h)
            /\ pc[h] = "updW" => ENABLED UpdateWinner(h)
            /\ pc[h] = "updL" => ENABLED UpdateLoser(h)
            /\ pc[h] = "COMMIT" => ENABLED Commit(h)
            /\ Len(log) = 2 =>
                  \A order \in {<<Pair(1), Pair(2)>>, <<Pair(2), Pair(1)>>} :
                      \A x \in Rows :
                          /\ images[x].rating = NumericCell(Serial(Fresh, order)[x])
                          /\ images[x].matches_played = Writes(x)

\* C16 witness: a vote of 1 over 2 awaits its COMMIT, holding both of its
\* rows, while a vote of 3 over 4 has updated row 3 and awaits the UPDATE of
\* row 4
C16_Witness ==
    /\ winnerId[1] = "1" /\ loserId[1] = "2" /\ pc[1] = "COMMIT"
    /\ winnerId[2] = "3" /\ loserId[2] = "4" /\ pc[2] = "updL"
    /\ DOMAIN tx[1].rows = {1, 2} /\ DOMAIN tx[2].rows = {3}

\* the place of an awaited operation in the order of the handler's stages
Stage(p) ==
    CASE p = "idle" -> 0 [] p = "selW" -> 1 [] p = "selL" -> 2
      [] p = "connect" -> 3 [] p = "BEGIN" -> 4 [] p = "updW" -> 5
      [] p = "updL" -> 6 [] p = "COMMIT" -> 7 [] p = "ROLLBACK" -> 8
      [] p = "done" -> 9

\* C17: a request goes through its stages in order and is answered once,
\* when its handler returns: 400 with no statement run, 404 with only the
\* SELECTs run, success with SELECT, BEGIN, UPDATE and COMMIT run, 500 only
\* after a query failed; an UPDATE is run only for a handler that has found
\* both rows
C17_Stages ==
    /\ [](\A h \in Handlers :
            /\ (pc[h] = "done") <=> (res[h] # 0)
            /\ res[h] \in {0, 200, 400, 404, 500}
            /\ res[h] = 400 => ops[h] = {}
            /\ res[h] = 404 => ops[h] = {"SELECT"}
            /\ res[h] = 200 => ops[h] = {"SELECT", "BEGIN", "UPDATE", "COMMIT"}
            /\ "UPDATE" \in ops[h] => {"SELECT", "BEGIN"} \subseteq ops[h])
    /\ [][\A h \in Handlers :
            /\ Stage(pc'[h]) >= Stage(pc[h])
            /\ res[h] # 0 => res'[h] = res[h]
            /\ (res'[h] = 500 /\ res[h] = 0) =>
                  (StorageError(h) \/ pc[h] = "ROLLBACK")
            /\ (pc'[h] = "ROLLBACK" /\ pc[h] # "ROLLBACK") =>
                  (StorageError(h) \/ Deadlock(h))
            /\ ("UPDATE" \in ops'[h] /\ "UPDATE" \notin ops[h]) =>
                  (/\ Len(wr[h]) = 1 /\ Len(lr[h]) = 1
                   /\ wr[h][1].id \in Rows /\ lr[h][1].id \in Rows)]_vars

\* C17 witness: one request was answered 404 after its SELECTs, the other
\* 500 after its UPDATEs and a ROLLBACK
C17_Witness ==
    \E h, g \in Handlers :
        /\ res[h] = 404 /\ ops[h] = {"SELECT"}
        /\ res[g] = 500 /\ ops[g] = {"SELECT", "BEGIN", "UPDATE", "ROLLBACK"}

\* the pool clients that are checked out
RECURSIVE CheckedOut(_)
CheckedOut(hs) ==
    IF hs = {} THEN 0
    ELSE LET h == CHOOSE x \in hs : TRUE
         IN  clients[h].acquired - clients[h].released + CheckedOut(hs \ {h})

\* C18: a handler holds a pool client exactly from pool.connect() to the
\* end of its transaction (committed, rolled back, or its ROLLBACK failed),
\* has released every client it acquired, once, when it returns, and with
\* no request in flight no client is checked out
C18_ClientsReleased ==
    /\ \A h \in Handlers :
          /\ clients[h].released <= clients[h].acquired
          /\ (clients[h].acquired - clients[h].released = 1) <=>
                (pc[h] \in {"BEGIN", "updW", "updL", "COMMIT", "ROLLBACK"})
          /\ pc[h] = "done" => clients[h].released = clients[h].acquired
          /\ "BEGIN" \in ops[h] => clients[h].acquired = 1
    /\ (\A h \in Handlers : pc[h] \in {"idle", "done"}) => CheckedOut(Handlers) = 0

\* C18 witness: one vote committed, of the other the UPDATEs ran and the
\* ROLLBACK failed; each released the one client it had acquired
C18_Witness ==
    \E h, g \in Handlers :
        /\ res[h] = 200 /\ clients[h] = [acquired |-> 1, released |-> 1]
        /\ res[g] = 500 /\ ops[g] = {"SELECT", "BEGIN", "UPDATE"}
        /\ clients[g] = [acquired |-> 1, released |-> 1]

\* C19: /api/matchup and /api/rankings leave the table as it is;
\* /api/rankings, its query answered, responds with every row of the table
\* once, in non-increasing order of rating; and the rating or matches_played
\* of a row changes only in the step in which a vote commits
C19_ReadOnly ==
    [][/\ (reply' # reply /\ reply'.route \in {"matchup", "rankings"}) =>
             images' = images
       /\ (reply' # reply /\ reply'.route = "rankings") =>
             /\ reply'.status \in {200, 500}
             /\ reply'.status = 200 =>
                   /\ Len(reply'.rows) = Len(images)
                   /\ \A i \in Rows : \E k \in Rows : reply'.rows[k] = Row(i)
                   /\ \A k \in Rows : \A m \in Rows :
                         k < m => reply'.rows[k].rating.val >= reply'.rows[m].rating.val
       /\ Len(images') >= Len(images)
       /\ \A i \in Rows :
             images'[i] # images[i] => \E h \in Handlers : Commit(h)]_vars

\* C19 witness: after a committed vote of 2 over 1 and an upload,
\* /api/rankings has answered rows 2, 3, 1
C19_Witness ==
    /\ Len(log) = 1 /\ Len(images) = 3
    /\ reply.route = "rankings" /\ reply.status = 200
    /\ Len(reply.rows) = 3
    /\ reply.rows[1].id = 2 /\ reply.rows[2].id = 3 /\ reply.rows[3].id = 1
    /\ reply.rows[1].rating.val > reply.rows[2].rating.val
    /\ reply.rows[2].rating.val > reply.rows[3].rating.val

====
